---- MODULE Spec2Model ----
(***************************************************************************)
(* State-transition and notification engine of the joystate store          *)
(* (src/src/index.ts).  The store is a plain record of maps; every exported *)
(* function is an action that runs to completion (JavaScript's single      *)
(* thread); the `await` inside set() and the deferred flush of              *)
(* scheduleNotify() are entries of the microtask queue mq, run in FIFO      *)
(* order between synchronous pieces of caller code.                        *)
(***************************************************************************)
EXTENDS Integers, Sequences, FiniteSets, TLC

\* ---------------------------------------------------------------- bounds
MaxOps == 3          \* caller-issued operations in one behaviour
MaxCalls == 2        \* set() calls in one behaviour
MaxHandles == 2      \* observer() handles in one behaviour

\* ---------------------------------------------------------------- domains
Keys == {"a", "b"}
AsyncKeys == {"a"}              \* the keys written through set() and observer()
Vals == {"v1", "v2"}
Undef == "undefined"            \* the JavaScript value undefined
StreamObj == "stream"           \* an object with a callable subscribe
Errs == {"e1"}
TransformErr == "thrown"        \* what a throwing options.transform throws
Listeners == {"L1", "L2"}

\* ------------------------------------------------- JavaScript object maps
Has(m, k) == k \in DOMAIN m
Put(m, k, v) == [x \in (DOMAIN m) \cup {k} |-> IF x = k THEN v ELSE m[x]]
Del(m, k) == [x \in (DOMAIN m) \ {k} |-> m[x]]
Spread(m, n) == [x \in (DOMAIN m) \cup (DOMAIN n) |-> IF x \in DOMAIN n THEN n[x] ELSE m[x]]
EmptyMap == [x \in {} |-> Undef]
Truthy(m, k) == Has(m, k) /\ m[k] = TRUE
SeqRange(s) == {s[i] : i \in 1..Len(s)}
SeqRemove(s, x) == SelectSeq(s, LAMBDA y : y # x)

\* ---------------------------------------------------------------- store
\* createStore's object literal, before setState(initialState) is applied.
EmptyStore ==
  [ state |-> EmptyMap,
    subscriptions |-> <<>>,
    knowns |-> {},
    lives |-> EmptyMap,
    loadings |-> EmptyMap,
    disconnects |-> EmptyMap,
    errors |-> EmptyMap,
    notifyScheduled |-> FALSE ]

FlushTask == [type |-> "flush", c |-> 0]
ContTask(c) == [type |-> "cont", c |-> c]

\* doNotify is queued with queueMicrotask, so it shares the FIFO queue of the
\* promise reactions that resume set().
\* A "world" w is what a synchronous piece of library code can change:
\*   w.s  the store, w.q  the microtask queue, w.t  how often each handle's
\*   teardown has been invoked, w.h  the observer handles (key, closed flag,
\*   whether options.transform was given), w.x  the exception propagating out
\*   of the code ("none" when it returns normally).
NoThrow == "none"

\* scheduleNotify without its notifyScheduled test.
scheduleNotify_NoGuard(w) ==
  [w EXCEPT !.q = Append(@, FlushTask), !.s.notifyScheduled = TRUE]

\* scheduleNotify: no-op when already scheduled, else queue doNotify.
scheduleNotify(w) ==
  IF w.s.notifyScheduled
    THEN w
    ELSE [w EXCEPT !.q = Append(@, FlushTask), !.s.notifyScheduled = TRUE]

\* setState's loop body without the write of store.lives[key].
setStateKey_KeepLive(w, key) ==
  LET s1 == [w.s EXCEPT !.knowns = @ \cup {key},
                        !.errors = Put(@, key, Undef),
                        !.loadings = Put(@, key, FALSE)]
  IN IF Has(s1.disconnects, key)
       THEN [w EXCEPT !.s = [s1 EXCEPT !.disconnects = Del(@, key)],
                      !.t[s1.disconnects[key]] = @ + 1]
       ELSE [w EXCEPT !.s = s1]

\* The body of setState's forEach for one key.
setStateKey(w, key) ==
  LET s1 == [w.s EXCEPT !.knowns = @ \cup {key},
                        !.errors = Put(@, key, Undef),
                        !.loadings = Put(@, key, FALSE),
                        !.lives = Put(@, key, FALSE)]
  IN IF Has(s1.disconnects, key)
       THEN [w EXCEPT !.s = [s1 EXCEPT !.disconnects = Del(@, key)],
                      !.t[s1.disconnects[key]] = @ + 1]
       ELSE [w EXCEPT !.s = s1]

RECURSIVE setStateLoop(_, _)
setStateLoop(w, keys) ==
  IF keys = {} THEN w
  ELSE LET k == CHOOSE x \in keys : TRUE
       IN setStateLoop(setStateKey(w, k), keys \ {k})

setState(w, merge) ==
  LET w1 == setStateLoop(w, DOMAIN merge)
      w2 == [w1 EXCEPT !.s.state = Spread(@, merge)]
  IN scheduleNotify(w2)

\* set() that leaves the previous value in place while the write is pending.
setBegin_KeepValue(w, key) ==
  scheduleNotify([w EXCEPT !.s.knowns = @ \cup {key},
                           !.s.errors = Del(@, key),
                           !.s.loadings = Put(@, key, TRUE),
                           !.s.lives = Put(@, key, FALSE)])

\* The synchronous part of set(), up to the await.
setBegin(w, key) ==
  scheduleNotify([w EXCEPT !.s.knowns = @ \cup {key},
                           !.s.state = Put(@, key, Undef),
                           !.s.errors = Del(@, key),
                           !.s.loadings = Put(@, key, TRUE),
                           !.s.lives = Put(@, key, FALSE)])

\* set() without its try/catch: a rejection propagates out of the function.
setResume_NoCatch(w, key, snap, ok, res) ==
  IF ok
    THEN scheduleNotify([w EXCEPT !.s.state = Put(snap, key, res),
                                  !.s.loadings = Put(@, key, FALSE)])
    ELSE [w EXCEPT !.x = res]

\* set() that forgets to reset loading after the await.
setResume_KeepLoading(w, key, snap, ok, res) ==
  LET w1 == IF ok
              THEN [w EXCEPT !.s.state = Put(snap, key, res)]
              ELSE [w EXCEPT !.s.state = Put(@, key, Undef),
                             !.s.errors = Put(@, key, res)]
  IN scheduleNotify(w1)

\* The part of set() after the await: ok = the awaited promise fulfilled with
\* res, otherwise it rejected with res and the catch block runs.  snap: the
\* properties of store.state as the object literal of line 101 spread them,
\* which it does before it evaluates the await; the literal of the catch block
\* (line 103) spreads store.state as it is after the await.
setResume(w, key, snap, ok, res) ==
  LET w1 == IF ok
              THEN [w EXCEPT !.s.state = Put(snap, key, res)]
              ELSE [w EXCEPT !.s.state = Put(@, key, Undef),
                             !.s.errors = Put(@, key, res)]
  IN scheduleNotify([w1 EXCEPT !.s.loadings = Put(@, key, FALSE)])

\* observer(): the two writes made when the handle is created, and the handle.
observerCreate(w, key, hasTransform) ==
  [w EXCEPT !.s.loadings = Put(@, key, TRUE),
            !.s.lives = Put(@, key, TRUE),
            !.h = Append(@, [key |-> key, closed |-> FALSE, transform |-> hasTransform])]

\* options.transform, when given: a function that maps v1 to v2 and throws on
\* every other value (and, when it is not pure, may throw when invoked again).
TransformThrows(val) == val # "v1"
Transform(val) == "v2"

\* handle.error
observerError(w, h, err) ==
  IF w.h[h].closed THEN w
  ELSE LET key == w.h[h].key
       IN scheduleNotify([w EXCEPT !.h[h].closed = TRUE,
                                   !.s.loadings = Put(@, key, FALSE),
                                   !.s.state = Put(@, key, Undef),
                                   !.s.errors = Put(@, key, err),
                                   !.s.lives = Put(@, key, FALSE)])

\* handle.next without its closed test.
observerNext_NoClosedCheck(w, h, val, again) ==
  IF w.h[h].transform /\ TransformThrows(val)
    THEN observerError(w, h, TransformErr)
  ELSE IF w.h[h].transform /\ again
    THEN [w EXCEPT !.s.loadings = Put(@, w.h[h].key, FALSE), !.x = TransformErr]
    ELSE LET key == w.h[h].key
         IN scheduleNotify([w EXCEPT
              !.s.loadings = Put(@, key, FALSE),
              !.s.state = Put(@, key, IF w.h[h].transform THEN Transform(val) ELSE val)])

\* handle.next.  options.transform is invoked twice: inside the try (line 131)
\* and again, outside it, in the object literal assigned to store.state (line
\* 141).  again: the second invocation throws although the first returned (a
\* transform that is not a pure function); the exception then leaves next()
\* after loadings[key] was written and before store.state is assigned.
observerNext(w, h, val, again) ==
  IF w.h[h].closed THEN w
  ELSE IF w.h[h].transform /\ TransformThrows(val)
    THEN observerError(w, h, TransformErr)
  ELSE IF w.h[h].transform /\ again
    THEN [w EXCEPT !.s.loadings = Put(@, w.h[h].key, FALSE), !.x = TransformErr]
    ELSE LET key == w.h[h].key
         IN scheduleNotify([w EXCEPT
              !.s.loadings = Put(@, key, FALSE),
              !.s.state = Put(@, key, IF w.h[h].transform THEN Transform(val) ELSE val)])

\* handle.complete that clears the value as handle.error does.
observerComplete_ClearsValue(w, h) ==
  IF w.h[h].closed THEN w
  ELSE LET key == w.h[h].key
       IN scheduleNotify([w EXCEPT !.h[h].closed = TRUE,
                                   !.s.loadings = Put(@, key, FALSE),
                                   !.s.state = Put(@, key, Undef),
                                   !.s.lives = Put(@, key, FALSE)])

\* handle.complete
observerComplete(w, h) ==
  IF w.h[h].closed THEN w
  ELSE LET key == w.h[h].key
       IN scheduleNotify([w EXCEPT !.h[h].closed = TRUE,
                                   !.s.loadings = Put(@, key, FALSE),
                                   !.s.lives = Put(@, key, FALSE)])

\* unset's loop body without the delete of store.disconnects[key].
unsetKey_NoDelete(w, key) ==
  LET s1 == [w.s EXCEPT !.knowns = @ \ {key}]
      w1 == IF Has(s1.disconnects, key)
              THEN [w EXCEPT !.s = s1, !.t[s1.disconnects[key]] = @ + 1]
              ELSE [w EXCEPT !.s = s1]
  IN [w1 EXCEPT !.s.errors = Del(@, key),
                !.s.loadings = Del(@, key),
                !.s.state = Del(@, key)]

\* unset's loop body without the delete of store.errors[key].
unsetKey_KeepError(w, key) ==
  LET s1 == [w.s EXCEPT !.knowns = @ \ {key}]
      w1 == IF Has(s1.disconnects, key)
              THEN [w EXCEPT !.s = [s1 EXCEPT !.disconnects = Del(@, key)],
                             !.t[s1.disconnects[key]] = @ + 1]
              ELSE [w EXCEPT !.s = s1]
  IN [w1 EXCEPT !.s.loadings = Del(@, key),
                !.s.state = Del(@, key)]

\* The body of unset's forEach for one key.
unsetKey(w, key) ==
  LET s1 == [w.s EXCEPT !.knowns = @ \ {key}]
      w1 == IF Has(s1.disconnects, key)
              THEN [w EXCEPT !.s = [s1 EXCEPT !.disconnects = Del(@, key)],
                             !.t[s1.disconnects[key]] = @ + 1]
              ELSE [w EXCEPT !.s = s1]
  IN [w1 EXCEPT !.s.errors = Del(@, key),
                !.s.loadings = Del(@, key),
                !.s.state = Del(@, key)]

RECURSIVE unsetLoop(_, _)
unsetLoop(w, keys) ==
  IF keys = <<>> THEN w ELSE unsetLoop(unsetKey(w, Head(keys)), Tail(keys))

unset(w, keys) == scheduleNotify(unsetLoop(w, keys))

\* get / getState / getContext and the convenience predicates.
get(s, key) == IF Has(s.state, key) THEN s.state[key] ELSE Undef
getState(s) == s.state
getContext(s) == [loading |-> s.loadings, known |-> s.knowns, errors |-> s.errors, live |-> s.lives]
known(s, key) == key \in s.knowns
loading(s, key) == Truthy(s.loadings, key)
error(s, key) == IF Has(s.errors, key) THEN s.errors[key] ELSE Undef

\* ------------------------------------------------- OldStore (src/src/store.old)
\* The class OldStore is the one place of the repository with a getter and
\* dependents.  It has no scheduler: its notifications are synchronous calls.
\* The absent sets of notifs, subs and statusSubs are empty sets here.
Null == "null"
OldStatus(known_, loading_, live_, error_, value_) ==
  [known |-> known_, loading |-> loading_, live |-> live_, error |-> error_, value |-> value_]

\* new OldStore(initialState)
OldStoreNew(initialState) ==
  [currentState |-> initialState,
   statusMap |-> EmptyMap,
   getters |-> {},
   notifs |-> [k \in Keys |-> {}],
   subs |-> [k \in Keys |-> {}],
   statusSubs |-> [k \in Keys |-> {}],
   globalSubs |-> {}]

\* OldStore.notifyList
notifyList(o, key) == {key} \cup o.notifs[key]

\* OldStore.notifyStatus and OldStore.notifyValue: the subscriber calls they make.
notifyStatus(o, key) ==
  {c \in {"status"} \X notifyList(o, key) \X Listeners : c[3] \in o.statusSubs[c[2]]}
notifyValue(o, key) ==
  {c \in {"value"} \X notifyList(o, key) \X Listeners : c[3] \in o.subs[c[2]]}
  \cup {<<"global", "", l>> : l \in o.globalSubs}

\* OldStore.set up to its await (a deferred) or to its end (anything else):
\* the store after it and the subscriber calls it made.  The path of a value
\* that is not a thenable ends at line 107 without notifyStatus or notifyValue.
oldSetBegin(o, key, deferred, val) ==
  LET o1 == [o EXCEPT !.getters = @ \ {key}] IN
  IF deferred
    THEN LET o2 == [o1 EXCEPT !.statusMap =
                      Put(@, key, OldStatus(TRUE, TRUE, FALSE, Undef, Null))]
         IN [o |-> o2, told |-> notifyStatus(o2, key)]
    ELSE [o |-> [o1 EXCEPT !.statusMap = Put(@, key, OldStatus(TRUE, FALSE, FALSE, Undef, val)),
                           !.currentState = Put(@, key, val)],
          told |-> {}]

\* OldStore.set after its await.  snap: this.currentState as the object literal
\* of line 76 spread it before the await.
oldSetResume(o, key, snap, ok, res) ==
  IF ok
    THEN LET o2 == [o EXCEPT !.currentState = Put(snap, key, res),
                             !.statusMap = Put(@, key, [@[key] EXCEPT !.loading = FALSE])]
         IN [o |-> o2, told |-> notifyStatus(o2, key) \cup notifyValue(o2, key)]
    ELSE LET o2 == [o EXCEPT !.statusMap =
                      Put(@, key, OldStatus(TRUE, FALSE, FALSE, res, Null))]
         IN [o |-> o2, told |-> notifyStatus(o2, key)]

\* OldStore.getter
oldGetter(o, key, depends) ==
  [o EXCEPT !.statusMap = Put(@, key, OldStatus(TRUE, FALSE, FALSE, Undef, Null)),
            !.getters = @ \cup {key},
            !.notifs = [d \in Keys |-> IF d \in depends THEN @[d] \cup {key} ELSE @[d]]]

\* OldStore.watch, OldStore.watchStatus, OldStore.subscribe
oldWatch(o, key, l) == [o EXCEPT !.subs[key] = @ \cup {l}]
oldWatchStatus(o, key, l) == [o EXCEPT !.statusSubs[key] = @ \cup {l}]
oldSubscribe(o, l) == [o EXCEPT !.globalSubs = @ \cup {l}]

\* An OldStore step: the operation, its key, the set() call it belongs to and
\* the subscriber calls it made.
OldStep(op, key, c, told) == [op |-> op, key |-> key, c |-> c, told |-> told]


\* ---------------------------------------------------------------- inputs
Merges ==
  {EmptyMap} \cup UNION {[{k} -> Vals] : k \in Keys}
             \cup {[k \in Keys |-> IF k = "a" THEN "v1" ELSE "v2"]}
InitialStates == {EmptyMap, [k \in {"a"} |-> "v1"]}
UnsetArgs == {<<"a">>, <<"b">>, <<"a", "b">>, <<"a", "a">>}
Literals == Vals \cup {StreamObj}

\* ---------------------------------------------------------------- state
VARIABLES
  store,        \* the Store object
  mq,           \* microtask queue: doNotify callbacks and resumptions of set()
  handles,      \* observer handles created so far
  torn,         \* torn[h]: how often the teardown registered for handle h ran
  connected,    \* handles whose teardown was ever put into store.disconnects
  calls,        \* set() calls issued so far
  mode,         \* "idle": nothing on the call stack; "notify": inside notify()
  todo,         \* subscriptions notify()'s for-of loop has still to visit
  inSub,        \* inside notify(), a subscription has been invoked
  arg,          \* the (state, context) handed to the latest subscription call
  ops,          \* caller-issued operations so far
  last,         \* the step taken last
  dirtyCalls,   \* set() calls with another write to their key since issue
  supCalls,     \* deferred set() calls superseded before their deferred settled
  overwritten,  \* handles whose key was since written by set/setState/unset
  behind,       \* subscriptions not invoked since the last requested notification
  delivered,    \* delivered[l]: invocations of l by the running/latest notify()
  subMark,      \* subscriptions added/removed while a doNotify was queued
  burst,        \* "none" | "open" | "closed" | "flushing"
  burstN,       \* mutations of the tracked burst (counted up to 2)
  burstSnap,    \* (state, context) after the last mutation of the tracked burst
  burstDirty,   \* keys written outside the tracked burst before its flush
  oldStore,     \* an OldStore object (src/src/store.old)
  oldRun        \* OldStore: set() calls awaiting, the step taken last, operations so far

newVars == <<store, mq, handles, torn, connected, calls, mode, todo, inSub, arg, ops,
             last, dirtyCalls, supCalls, overwritten, behind, delivered, subMark, burst,
             burstN, burstSnap, burstDirty>>
oldVars == <<oldStore, oldRun>>
vars == <<newVars, oldVars>>

World == [s |-> store, q |-> mq, t |-> torn, h |-> handles, x |-> NoThrow]
Snapshot(s) == [state |-> getState(s), context |-> getContext(s)]
NumFlush(q) == Cardinality({i \in 1..Len(q) : q[i].type = "flush"})
SchedulerIdle == mode = "idle" /\ ~store.notifyScheduled /\ NumFlush(mq) = 0
\* A step: the operation, the keys it was given, the set() call, the handle and
\* the subscription it concerns, whether that handle was closed when called,
\* the exception the operation raised, the merge argument of setState and
\* createStore, and whether options.transform threw during the operation.
Step(op, keys, c, h, l) ==
  [op |-> op, keys |-> keys, c |-> c, h |-> h, l |-> l, closed |-> FALSE, x |-> NoThrow,
   m |-> EmptyMap, tt |-> FALSE]

\* createStore(initialState) for the initial states of InitialStates.
createStore(initialState) ==
  setState([s |-> EmptyStore, q |-> <<>>, t |-> [h \in 1..MaxHandles |-> 0],
            h |-> <<>>, x |-> NoThrow], initialState)

InitStore(initialState) ==
    LET w == createStore(initialState) IN
    /\ store = w.s
    /\ mq = w.q
    /\ handles = w.h
    /\ torn = w.t
    /\ connected = {}
    /\ calls = <<>>
    /\ mode = "idle"
    /\ todo = <<>>
    /\ inSub = FALSE
    /\ arg = Snapshot(EmptyStore)
    /\ ops = 0
    /\ last = [Step("createStore", DOMAIN initialState, 0, 0, "") EXCEPT !.m = initialState]
    /\ dirtyCalls = {}
    /\ supCalls = {}
    /\ overwritten = {}
    /\ behind = {}
    /\ delivered = [l \in Listeners |-> 0]
    /\ subMark = [mark |-> [l \in Listeners |-> "none"], flush |-> FALSE]
    /\ burst = "none"
    /\ burstN = 0
    /\ burstSnap = Snapshot(EmptyStore)
    /\ burstDirty = {}

InitOldStore(initialState) ==
    /\ oldStore = OldStoreNew(initialState)
    /\ oldRun = [calls |-> <<>>, last |-> OldStep("new", "", 0, {}), ops |-> 0]

Init ==
  \E initialState \in InitialStates :
    InitStore(initialState) /\ InitOldStore(EmptyMap)

\* ------------------------------------------------------------ bookkeeping
\* What kind of step a piece of code was: the keys it wrote, whether it is one
\* of the writes that supersede a pending deferred (set, setState, unset,
\* observer attach), whether it overwrites a key bound to a handle (set,
\* setState, unset), whether it called scheduleNotify, and whether it is one of
\* the mutations a burst is made of (setState, unset, handle next/error/complete).
Kind(writes, sup, over, req, listed) ==
  [writes |-> writes, sup |-> sup, over |-> over, req |-> req, listed |-> listed]

OpenCalls(keys) == {c \in 1..Len(calls) : calls[c].key \in keys /\ calls[c].st # "done"}
PendingCalls(keys) == {c \in 1..Len(calls) : calls[c].key \in keys /\ calls[c].st = "pending"}
HandlesOf(keys) == {h \in 1..Len(handles) : handles[h].key \in keys}

\* The tracked burst after caller code of kind k left the store as s.
BurstAfter(k, s) ==
  LET same == [b |-> burst, n |-> burstN, snap |-> burstSnap, dirty |-> burstDirty] IN
  IF mode = "notify"
    THEN [same EXCEPT !.dirty = IF burst = "flushing" THEN @ \cup k.writes ELSE @]
  ELSE IF k.listed
    THEN IF burst = "open"
           THEN [same EXCEPT !.n = IF @ < 2 THEN @ + 1 ELSE @, !.snap = Snapshot(s)]
         ELSE IF SchedulerIdle
           THEN [b |-> "open", n |-> 1, snap |-> Snapshot(s), dirty |-> {}]
         ELSE [same EXCEPT !.dirty = IF burst = "closed" THEN @ \cup k.writes ELSE @]
  ELSE [same EXCEPT !.dirty = IF burst \in {"open", "closed"} THEN @ \cup k.writes ELSE @]

\* The ghost variables after a step of kind k (self: the set() call that is
\* itself running, 0 when none).
Track(k, self, s) ==
  /\ dirtyCalls' = dirtyCalls \cup (OpenCalls(k.writes) \ {self})
  /\ supCalls' = supCalls \cup (IF k.sup THEN PendingCalls(k.writes) ELSE {})
  /\ overwritten' = overwritten \cup (IF k.over THEN HandlesOf(k.writes) ELSE {})
  /\ behind' = IF k.req THEN SeqRange(store.subscriptions) ELSE behind

\* A caller-issued library call that ended with world w.
Commit(w, step, k) ==
  /\ store' = w.s
  /\ mq' = w.q
  /\ torn' = w.t
  /\ handles' = w.h
  /\ last' = [step EXCEPT !.x = w.x]
  /\ ops' = ops + 1
  /\ Track(k, 0, w.s)
  /\ LET b == BurstAfter(k, w.s) IN
       /\ burst' = b.b
       /\ burstN' = b.n
       /\ burstSnap' = b.snap
       /\ burstDirty' = b.dirty
  /\ UNCHANGED <<mode, todo, inSub, arg, delivered, subMark, connected, oldVars>>

\* Caller code runs at the top of the call stack (CanCall) or inside a
\* subscription that notify() is invoking (the subscriptions of this model call
\* nothing but setState).
CanCall == ops < MaxOps /\ mode = "idle"
CanCallInSub == ops < MaxOps /\ (mode = "idle" \/ inSub)

\* ---------------------------------------------------------------- actions
SetState(merge) ==
  /\ CanCallInSub
  /\ Commit(setState(World, merge),
            [Step("setState", DOMAIN merge, 0, 0, "") EXCEPT !.m = merge],
            Kind(DOMAIN merge, TRUE, TRUE, TRUE, TRUE))
  /\ UNCHANGED calls

\* set(store, key, value) with a literal (anything without a then method).
SetLiteral(key, val) ==
  /\ CanCall
  /\ Len(calls) < MaxCalls
  /\ LET c == Len(calls) + 1
         w == setBegin(World, key)
     IN /\ Commit([w EXCEPT !.q = Append(@, ContTask(c))], Step("set", {key}, c, 0, ""),
                  Kind({key}, TRUE, TRUE, TRUE, FALSE))
        /\ calls' = Append(calls, [key |-> key, deferred |-> FALSE, st |-> "queued",
                                   ok |-> TRUE, res |-> val, result |-> "pending",
                                   snap |-> w.s.state])

\* set(store, key, promise) with a promise that has not settled yet.
SetDeferred(key) ==
  /\ CanCall
  /\ Len(calls) < MaxCalls
  /\ LET c == Len(calls) + 1
         w == setBegin(World, key)
     IN /\ Commit(w, Step("set", {key}, c, 0, ""),
                  Kind({key}, TRUE, TRUE, TRUE, FALSE))
        /\ calls' = Append(calls, [key |-> key, deferred |-> TRUE, st |-> "pending",
                                   ok |-> TRUE, res |-> Undef, result |-> "pending",
                                   snap |-> w.s.state])

\* The promise awaited by call c settles: the rest of set() is queued.
Settle(c, ok, res) ==
  /\ mode = "idle"
  /\ c \in 1..Len(calls)
  /\ calls[c].st = "pending"
  /\ calls' = [calls EXCEPT ![c].st = "queued", ![c].ok = ok, ![c].res = res]
  /\ mq' = Append(mq, ContTask(c))
  /\ last' = Step("settle", {calls[c].key}, c, 0, "")
  /\ UNCHANGED <<store, handles, torn, connected, mode, todo, inSub, arg, ops, dirtyCalls,
                 supCalls, overwritten, behind, delivered, subMark, burst, burstN, burstSnap,
                 burstDirty, oldVars>>

\* Microtask: set() resumes after its await.  A fulfilled call assigns a whole
\* new store.state, so it writes every key; a rejected one writes its own.
SetResume ==
  /\ mode = "idle"
  /\ mq # <<>>
  /\ Head(mq).type = "cont"
  /\ LET c == Head(mq).c
         key == calls[c].key
         w == setResume([World EXCEPT !.q = Tail(mq)], key, calls[c].snap,
                        calls[c].ok, calls[c].res)
     IN /\ store' = w.s
        /\ mq' = w.q
        /\ calls' = [calls EXCEPT ![c].st = "done",
                                  ![c].result = IF w.x = NoThrow THEN "resolved" ELSE "rejected"]
        /\ last' = [Step("resume", {key}, c, 0, "") EXCEPT !.x = w.x]
        /\ Track(Kind(IF calls[c].ok THEN Keys ELSE {key}, FALSE, FALSE, TRUE, FALSE), c, w.s)
  /\ burst' = IF burst = "open" THEN "closed" ELSE burst
  /\ burstDirty' = IF burst \in {"open", "closed"}
                     THEN burstDirty \cup (IF calls[Head(mq).c].ok
                                             THEN Keys ELSE {calls[Head(mq).c].key})
                     ELSE burstDirty
  /\ UNCHANGED <<handles, torn, connected, mode, todo, inSub, arg, ops, delivered, subMark, burstN,
                 burstSnap, oldVars>>

Observer(key, hasTransform) ==
  /\ CanCall
  /\ Len(handles) < MaxHandles
  /\ Commit(observerCreate(World, key, hasTransform),
            Step("observer", {key}, 0, Len(handles) + 1, ""),
            Kind({key}, TRUE, FALSE, FALSE, FALSE))
  /\ UNCHANGED calls

HandleKind(h) ==
  IF handles[h].closed
    THEN Kind({}, FALSE, FALSE, FALSE, FALSE)
    ELSE Kind({handles[h].key}, FALSE, FALSE, TRUE, TRUE)

HandleStep(op, h) ==
  [Step(op, {handles[h].key}, 0, h, "") EXCEPT !.closed = handles[h].closed]

ObserverNext(h, val, again) ==
  /\ CanCall
  /\ h \in 1..Len(handles)
  /\ again => (~handles[h].closed /\ handles[h].transform /\ ~TransformThrows(val))
  /\ Commit(observerNext(World, h, val, again),
            [HandleStep("next", h) EXCEPT
               !.tt = ~handles[h].closed /\ handles[h].transform
                      /\ (TransformThrows(val) \/ again)],
            IF again THEN Kind({handles[h].key}, FALSE, FALSE, FALSE, FALSE)
                     ELSE HandleKind(h))
  /\ UNCHANGED calls

ObserverError(h, err) ==
  /\ CanCall
  /\ h \in 1..Len(handles)
  /\ Commit(observerError(World, h, err), HandleStep("error", h), HandleKind(h))
  /\ UNCHANGED calls

ObserverComplete(h) ==
  /\ CanCall
  /\ h \in 1..Len(handles)
  /\ Commit(observerComplete(World, h), HandleStep("complete", h), HandleKind(h))
  /\ UNCHANGED calls

Unset(keys) ==
  /\ CanCall
  /\ Commit(unset(World, keys), Step("unset", SeqRange(keys), 0, 0, ""),
            Kind(SeqRange(keys), TRUE, TRUE, TRUE, TRUE))
  /\ UNCHANGED calls

\* The caller stores the teardown of the stream feeding handle h in
\* store.disconnects (index.ts itself never writes that field).
Connect(h) ==
  /\ CanCall
  /\ h \in 1..Len(handles)
  /\ h \notin connected
  /\ ~Has(store.disconnects, handles[h].key)
  /\ store' = [store EXCEPT !.disconnects = Put(@, handles[h].key, h)]
  /\ connected' = connected \cup {h}
  /\ ops' = ops + 1
  /\ last' = Step("connect", {handles[h].key}, 0, h, "")
  /\ UNCHANGED <<mq, handles, torn, calls, mode, todo, inSub, arg, dirtyCalls, supCalls,
                 overwritten, behind, delivered, subMark, burst, burstN, burstSnap, burstDirty,
                 oldVars>>

Subscribe(l, immediate) ==
  /\ CanCall
  /\ store' = [store EXCEPT !.subscriptions =
                 IF l \in SeqRange(@) THEN @ ELSE Append(@, l)]
  /\ arg' = IF immediate THEN Snapshot(store) ELSE arg
  /\ behind' = IF immediate \/ l \notin SeqRange(store.subscriptions)
                 THEN behind \ {l} ELSE behind
  /\ ops' = ops + 1
  /\ subMark' = [subMark EXCEPT !.mark[l] =
                   IF l \in SeqRange(store.subscriptions) THEN @
                   ELSE IF NumFlush(mq) >= 1 THEN "late" ELSE "none"]
  /\ last' = Step("subscribe", {}, 0, 0, l)
  /\ UNCHANGED <<mq, handles, torn, connected, calls, mode, todo, inSub, dirtyCalls,
                 supCalls, overwritten, delivered, burst, burstN, burstSnap, burstDirty, oldVars>>

\* unsubscribe(store, sub), or the function subscribe returned.
Unsubscribe(l) ==
  /\ CanCall
  /\ store' = [store EXCEPT !.subscriptions = SeqRemove(@, l)]
  /\ behind' = behind \ {l}
  /\ ops' = ops + 1
  /\ subMark' = [subMark EXCEPT !.mark[l] =
                   IF l \notin SeqRange(store.subscriptions) THEN @
                   ELSE IF NumFlush(mq) >= 1 THEN "gone" ELSE "none"]
  /\ last' = Step("unsubscribe", {}, 0, 0, l)
  /\ UNCHANGED <<mq, handles, torn, connected, calls, mode, todo, inSub, arg, dirtyCalls,
                 supCalls, overwritten, delivered, burst, burstN, burstSnap, burstDirty, oldVars>>

\* notify() looping over the subscriptions as they were when the notification
\* was requested instead of as they are when it runs.
notifyEnter_RequestTimeSubs ==
  /\ mode' = "notify"
  /\ todo' = LET AtRequest(l) == subMark.mark[l] # "late"
             IN SelectSeq(store.subscriptions, AtRequest)
  /\ inSub' = FALSE
  /\ delivered' = [l \in Listeners |-> 0]

\* notify() is entered: its for-of loop starts over store.subscriptions.
notifyEnter ==
  /\ mode' = "notify"
  /\ todo' = store.subscriptions
  /\ inSub' = FALSE
  /\ delivered' = [l \in Listeners |-> 0]

\* Microtask: doNotify, the callback scheduleNotify queued.
DoNotify ==
  /\ mode = "idle"
  /\ mq # <<>>
  /\ Head(mq).type = "flush"
  /\ mq' = Tail(mq)
  /\ notifyEnter
  /\ burst' = IF burst \in {"open", "closed"} THEN "flushing" ELSE burst
  /\ subMark' = [subMark EXCEPT !.flush = TRUE]
  /\ last' = Step("doNotify", {}, 0, 0, "")
  /\ UNCHANGED <<store, handles, torn, connected, calls, arg, ops, dirtyCalls, supCalls,
                 overwritten, behind, burstN, burstSnap, burstDirty, oldVars>>

\* The caller calls the exported notify() itself.
Notify ==
  /\ CanCall
  /\ notifyEnter
  /\ burst' = "none"
  /\ subMark' = [subMark EXCEPT !.flush = FALSE]
  /\ ops' = ops + 1
  /\ last' = Step("notify", {}, 0, 0, "")
  /\ UNCHANGED <<store, mq, handles, torn, connected, calls, arg, dirtyCalls, supCalls,
                 overwritten, behind, burstN, burstSnap, burstDirty, oldVars>>

\* One iteration of notify()'s loop: sub(getState(store), getContext(store)).
Deliver ==
  /\ mode = "notify"
  /\ todo # <<>>
  /\ LET l == Head(todo) IN
       /\ arg' = Snapshot(store)
       /\ delivered' = [delivered EXCEPT ![l] = IF @ < 2 THEN @ + 1 ELSE @]
       /\ behind' = behind \ {l}
       /\ last' = Step("deliver", {}, 0, 0, l)
  /\ todo' = Tail(todo)
  /\ inSub' = TRUE
  /\ UNCHANGED <<subMark, store, mq, handles, torn, connected, calls, mode, ops, dirtyCalls,
                 supCalls, overwritten, burst, burstN, burstSnap, burstDirty, oldVars>>

\* notify()'s loop is over: notifyScheduled is reset (by notify and again by
\* doNotify) and control returns to the event loop or the caller.
NotifyReturn ==
  /\ mode = "notify"
  /\ todo = <<>>
  /\ store' = [store EXCEPT !.notifyScheduled = FALSE]
  /\ mode' = "idle"
  /\ inSub' = FALSE
  /\ burst' = "none"
  /\ subMark' = IF subMark.flush
                 THEN [mark |-> [l \in Listeners |-> "none"], flush |-> FALSE]
                 ELSE subMark
  /\ last' = Step("notifyReturn", {}, 0, 0, "")
  /\ UNCHANGED <<mq, handles, torn, connected, calls, todo, arg, ops, dirtyCalls,
                 supCalls, overwritten, behind, delivered, burstN, burstSnap, burstDirty, oldVars>>

Next ==
  \/ \E merge \in Merges : SetState(merge)
  \/ \E key \in AsyncKeys, val \in Literals : SetLiteral(key, val)
  \/ \E key \in AsyncKeys : SetDeferred(key)
  \/ \E c \in 1..MaxCalls, val \in Vals : Settle(c, TRUE, val)
  \/ \E c \in 1..MaxCalls, err \in Errs : Settle(c, FALSE, err)
  \/ SetResume
  \/ \E key \in AsyncKeys, hasTransform \in BOOLEAN : Observer(key, hasTransform)
  \/ \E h \in 1..MaxHandles, val \in Vals, again \in BOOLEAN : ObserverNext(h, val, again)
  \/ \E h \in 1..MaxHandles, err \in Errs : ObserverError(h, err)
  \/ \E h \in 1..MaxHandles : ObserverComplete(h)
  \/ \E keys \in UnsetArgs : Unset(keys)
  \/ \E h \in 1..MaxHandles : Connect(h)
  \/ \E l \in Listeners, immediate \in BOOLEAN : Subscribe(l, immediate)
  \/ \E l \in Listeners : Unsubscribe(l)
  \/ DoNotify
  \/ Notify
  \/ Deliver
  \/ NotifyReturn

Spec == Init /\ [][Next]_vars

\* ------------------------------------------- OldStore: actions and behaviours
MaxOldOps == 3       \* caller-issued OldStore operations in one behaviour

OldCommit(o, step) ==
  /\ oldStore' = o
  /\ oldRun' = [oldRun EXCEPT !.last = step, !.ops = @ + 1]
  /\ UNCHANGED newVars

\* oldStore.set(key, val), val neither a thenable nor a subscribable.
OldSetLiteral(key, val) ==
  /\ oldRun.ops < MaxOldOps
  /\ LET r == oldSetBegin(oldStore, key, FALSE, val)
     IN OldCommit(r.o, OldStep("set", key, 0, r.told))

\* oldStore.set(key, p), p a promise that is pending.
OldSetDeferred(key) ==
  /\ oldRun.ops < MaxOldOps
  /\ LET r == oldSetBegin(oldStore, key, TRUE, Undef) IN
       /\ oldStore' = r.o
       /\ oldRun' = [calls |-> Append(oldRun.calls,
                                      [key |-> key, snap |-> r.o.currentState, st |-> "pending"]),
                     last |-> OldStep("set", key, Len(oldRun.calls) + 1, r.told),
                     ops |-> oldRun.ops + 1]
  /\ UNCHANGED newVars

\* The promise of call c settles and OldStore.set resumes after its await.
OldSetResume(c, ok, res) ==
  /\ c \in 1..Len(oldRun.calls)
  /\ oldRun.calls[c].st = "pending"
  /\ LET r == oldSetResume(oldStore, oldRun.calls[c].key, oldRun.calls[c].snap, ok, res) IN
       /\ oldStore' = r.o
       /\ oldRun' = [oldRun EXCEPT
                       !.calls[c].st = "done",
                       !.last = OldStep(IF ok THEN "resolved" ELSE "rejected",
                                        oldRun.calls[c].key, c, r.told)]
  /\ UNCHANGED newVars

\* oldStore.getter(key, fn, depends)
OldGetter(key, depends) ==
  /\ oldRun.ops < MaxOldOps
  /\ OldCommit(oldGetter(oldStore, key, depends), OldStep("getter", key, 0, {}))

\* oldStore.watch(key, l), oldStore.watchStatus(key, l), oldStore.subscribe(l)
OldWatch(key, l) ==
  /\ oldRun.ops < MaxOldOps
  /\ OldCommit(oldWatch(oldStore, key, l), OldStep("watch", key, 0, {}))
OldWatchStatus(key, l) ==
  /\ oldRun.ops < MaxOldOps
  /\ OldCommit(oldWatchStatus(oldStore, key, l), OldStep("watchStatus", key, 0, {}))
OldSubscribe(l) ==
  /\ oldRun.ops < MaxOldOps
  /\ OldCommit(oldSubscribe(oldStore, l), OldStep("subscribe", "", 0, {}))

InitOld ==
  /\ InitStore(EmptyMap)
  /\ \E initialState \in InitialStates : InitOldStore(initialState)

NextOld ==
  \/ \E key \in Keys, val \in Vals : OldSetLiteral(key, val)
  \/ \E key \in Keys : OldSetDeferred(key)
  \/ \E c \in 1..MaxOldOps, val \in Vals : OldSetResume(c, TRUE, val)
  \/ \E c \in 1..MaxOldOps, err \in Errs : OldSetResume(c, FALSE, err)
  \/ \E key \in Keys, depends \in SUBSET Keys : OldGetter(key, depends)
  \/ \E key \in Keys, l \in Listeners : OldWatch(key, l)
  \/ \E key \in Keys, l \in Listeners : OldWatchStatus(key, l)
  \/ \E l \in Listeners : OldSubscribe(l)

SpecOld == InitOld /\ [][NextOld]_vars

\* ================================================================ claims
\* What the store holds for one key: the entries of state, errors, loadings
\* and lives (the empty set when the map has no entry), and membership in knowns.
Entry(m, k) == IF Has(m, k) THEN {m[k]} ELSE {}
KeyView(s, k) ==
  [state |-> Entry(s.state, k), error |-> Entry(s.errors, k),
   loading |-> Entry(s.loadings, k), live |-> Entry(s.lives, k), known |-> k \in s.knowns]
Requested(s, q) == s.notifyScheduled /\ NumFlush(q) >= 1
Quiescent == mode = "idle" /\ mq = <<>>

\* C1: when a deferred set on key k was superseded before its deferred settled
\* (by set, setState, unset or observer attach on k), the resumption of that
\* set() changes none of state[k], errors[k], loadings[k], knowns.
C1_StaleWriteGuard ==
  [][(last'.op = "resume" /\ last'.c \in supCalls) =>
       LET k == calls[last'.c].key IN
         /\ Entry(store'.state, k) = Entry(store.state, k)
         /\ Entry(store'.errors, k) = Entry(store.errors, k)
         /\ Entry(store'.loadings, k) = Entry(store.loadings, k)
         /\ store'.knowns = store.knowns]_vars

\* What a (state, context) pair handed to a subscription shows of one key.
SnapView(snap, k) ==
  [state |-> Entry(snap.state, k), error |-> Entry(snap.context.errors, k),
   loading |-> Entry(snap.context.loading, k), live |-> Entry(snap.context.live, k),
   known |-> k \in snap.context.known]

\* C2: a burst of setState / unset / handle next, error, complete made in one
\* call stack while the scheduler is idle queues exactly one doNotify; when it
\* runs, every subscription is invoked exactly once, with the store as it is at
\* that time: for every key not written since, what the last mutation of the
\* burst left; after it no doNotify is left queued.
C2_BatchingStep ==
  /\ burst' \in {"open", "closed"} => (store'.notifyScheduled /\ NumFlush(mq') = 1)
  /\ (last'.op = "deliver" /\ burst' = "flushing") =>
       /\ delivered'[last'.l] = 1
       /\ arg' = Snapshot(store')
       /\ \A k \in Keys \ burstDirty' : SnapView(arg', k) = SnapView(burstSnap', k)
  /\ (last'.op = "notifyReturn" /\ burst = "flushing") =>
       /\ \A l \in Listeners :
            delivered[l] = IF l \in SeqRange(store.subscriptions) THEN 1 ELSE 0
       /\ NumFlush(mq') = 0
       /\ ~store'.notifyScheduled
C2_Batching == [][C2_BatchingStep]_vars

\* C2 witness: a subscription is being invoked by the single flush of a burst
\* of two mutations, and sees the store the second one left.
C2_Witness ==
  /\ last.op = "deliver"
  /\ burst = "flushing"
  /\ burstN = 2
  /\ burstDirty = {}
  /\ arg = burstSnap
  /\ \E k \in Keys : get(store, k) \in Vals

\* C3: no requested notification is dropped: once the microtask queue has
\* drained and nothing runs, every subscription has been invoked after the
\* latest mutation that requested a notification.
C3_NoBroadcastDropped == Quiescent => behind = {}

\* C4: right after set(k, deferred) returns, k is known, loading, not live,
\* without error and without value; when the deferred fulfils with v and no
\* other write to k came in between, get(k) = v, loading(k) is false and a
\* notification is requested.
C4_DeferredSuccess ==
  /\ (last.op = "set" /\ calls[last.c].deferred) =>
       \A k \in last.keys :
         /\ known(store, k)
         /\ loading(store, k)
         /\ Entry(store.lives, k) = {FALSE}
         /\ error(store, k) = Undef
         /\ get(store, k) = Undef
  /\ (/\ last.op = "resume"
      /\ calls[last.c].deferred
      /\ calls[last.c].ok
      /\ last.c \notin dirtyCalls) =>
       \A k \in last.keys :
         /\ get(store, k) = calls[last.c].res
         /\ ~loading(store, k)
         /\ Requested(store, mq)

\* C4 witness: a deferred set that nothing interfered with has just resumed
\* with the value its deferred fulfilled with.
C4_Witness ==
  /\ last.op = "resume"
  /\ calls[last.c].deferred
  /\ calls[last.c].ok
  /\ last.c \notin dirtyCalls
  /\ get(store, calls[last.c].key) \in Vals

\* C5: when the deferred of set(k, .) rejects with e and no other write to k
\* came in between, afterwards get(k) is absent, error(k) = e, loading(k) is
\* false, a notification is requested, and the promise set() returned is
\* resolved, not rejected.
C5_DeferredFailure ==
  /\ (/\ last.op = "resume"
      /\ calls[last.c].deferred
      /\ ~calls[last.c].ok
      /\ last.c \notin dirtyCalls) =>
       \A k \in last.keys :
         /\ get(store, k) = Undef
         /\ error(store, k) = calls[last.c].res
         /\ ~loading(store, k)
         /\ Requested(store, mq)
  /\ \A c \in 1..Len(calls) :
       /\ calls[c].result # "rejected"
       /\ calls[c].st = "done" => calls[c].result = "resolved"
  /\ last.op = "resume" => last.x = NoThrow

\* C5 witness: a deferred set that nothing interfered with has just resumed
\* after its deferred rejected.
C5_Witness ==
  /\ last.op = "resume"
  /\ calls[last.c].deferred
  /\ ~calls[last.c].ok
  /\ last.c \notin dirtyCalls
  /\ error(store, calls[last.c].key) \in Errs

\* C6: when set(k, v) with a literal v has completed and no other write to k
\* came in between, get(k) = v, loading(k) is false, error(k) is absent and k
\* is known.
C6_LiteralWrite ==
  (last.op = "resume" /\ ~calls[last.c].deferred /\ last.c \notin dirtyCalls) =>
     \A k \in last.keys :
       /\ calls[last.c].result = "resolved"
       /\ get(store, k) = calls[last.c].res
       /\ ~loading(store, k)
       /\ error(store, k) = Undef
       /\ known(store, k)

\* C6 witness: a literal set that nothing interfered with has completed.
C6_Witness ==
  /\ last.op = "resume"
  /\ ~calls[last.c].deferred
  /\ last.c \notin dirtyCalls
  /\ get(store, calls[last.c].key) \in Vals

\* C7: once the key of a handle was overwritten by set or setState or removed
\* by unset, the handle's next / error / complete change nothing of that key.
C7_SupersededStreamDetached ==
  [][(last'.op \in {"next", "error", "complete"} /\ last'.h \in overwritten) =>
       \A k \in last'.keys : KeyView(store', k) = KeyView(store, k)]_vars

\* C8: unset(k) while a teardown is registered for k invokes that teardown
\* exactly once, removes the registration and removes k from knowns; no
\* teardown is ever invoked twice, however often unset or setState is repeated.
C8_UnsetTeardownStep ==
  /\ last'.op = "unset" =>
       \A k \in last'.keys :
         /\ k \notin store'.knowns
         /\ ~Has(store'.disconnects, k)
         /\ Has(store.disconnects, k) =>
              torn'[store.disconnects[k]] = torn[store.disconnects[k]] + 1
  /\ \A h \in DOMAIN torn : torn'[h] <= 1
C9_StreamSetAttaches ==
  /\ \A k \in Keys : get(store, k) # StreamObj
  /\ (last.op = "set" /\ ~calls[last.c].deferred /\ calls[last.c].res = StreamObj) =>
       \A k \in last.keys : Has(store.disconnects, k)

\* C10: next / error / complete on a handle that is already closed leaves the
\* store, the microtask queue, the handles and the teardowns unchanged and
\* raises no exception.
C10_ClosedHandleInert ==
  [][(last'.op \in {"next", "error", "complete"} /\ handles[last'.h].closed) =>
       /\ store' = store
       /\ mq' = mq
       /\ handles' = handles
       /\ torn' = torn
       /\ last'.x = NoThrow]_vars

\* C10 witness: next was called on a handle that error(e) had closed; the error
\* is still e and the value still absent.
C10_Witness ==
  /\ last.op = "next"
  /\ last.closed
  /\ error(store, handles[last.h].key) \in Errs
  /\ get(store, handles[last.h].key) = Undef

\* ---------------------------------------------------------------------------
\* C11  When options.transform throws during next(val) on an open handle, the
\* call returns normally and the store is as after error(thrown): the handle is
\* closed, loading and live of its key are false, the value is cleared, the
\* error is the thrown value and a notification is requested; the untransformed
\* value is never written.
C11_TransformThrowIsError ==
  [][(last'.op = "next" /\ last'.tt) =>
       LET k == handles[last'.h].key
       IN /\ last'.x = NoThrow
          /\ handles'[last'.h].closed
          /\ Entry(store'.loadings, k) = {FALSE}
          /\ Entry(store'.lives, k) = {FALSE}
          /\ get(store', k) = Undef
          /\ error(store', k) = TransformErr
          /\ Requested(store', mq')]_vars

\* ---------------------------------------------------------------------------
\* C12  The subscriptions are read when the flush runs: when a queued doNotify
\* has finished its loop, every subscription that was added while it was queued
\* has been invoked by it exactly once, and no subscription that was removed
\* while it was queued has been invoked by it.
C12_SubscriptionsReadAtFlush ==
  (mode = "notify" /\ todo = <<>> /\ subMark.flush) =>
     \A l \in Listeners :
        /\ subMark.mark[l] = "late" => delivered[l] = 1
        /\ subMark.mark[l] = "gone" => delivered[l] = 0

\* C12 witness: a doNotify has finished its loop; it invoked a subscription that
\* was added after the notification was requested and did not invoke one that
\* was added and removed again before it ran.
C12_Witness ==
  /\ mode = "notify"
  /\ todo = <<>>
  /\ subMark.flush
  /\ \E l \in Listeners : subMark.mark[l] = "late" /\ delivered[l] = 1
  /\ \E l \in Listeners : subMark.mark[l] = "gone" /\ delivered[l] = 0

\* ---------------------------------------------------------------------------
\* C13  Dependency fan-out (OldStore): once getter(derived, fn, [src]) has been
\* registered, every set(src, v) notifies the subscribers of derived: each step
\* of a set(src, ...) call (the call itself and, for a deferred, its
\* settlement) invokes every status subscriber of every dependent of src, and
\* every value subscriber of every dependent when it wrote a value.
C13_DependencyFanOut ==
  oldRun.last.op \in {"set", "resolved", "rejected"} =>
    \A d \in (oldStore.notifs[oldRun.last.key] \cap oldStore.getters) \ {oldRun.last.key} :
       /\ \A l \in oldStore.statusSubs[d] : <<"status", d, l>> \in oldRun.last.told
       /\ (oldRun.last.op = "resolved" \/ (oldRun.last.op = "set" /\ oldRun.last.c = 0)) =>
            \A l \in oldStore.subs[d] : <<"value", d, l>> \in oldRun.last.told

\* ---------------------------------------------------------------------------
\* C14  After unset(k1, ..., kn) each listed key is not in known and has no
\* entry in state, in loading and in errors, and the call requested one
\* notification whatever n is: a flush is scheduled after it, and it queued one
\* doNotify when none was scheduled and none otherwise.
C14_UnsetStep ==
  last'.op = "unset" =>
    /\ \A k \in last'.keys :
         /\ ~known(store', k)
         /\ ~Has(store'.state, k)
         /\ ~Has(store'.loadings, k)
         /\ ~Has(store'.errors, k)
    /\ Requested(store', mq')
    /\ Len(mq') = Len(mq) + (IF store.notifyScheduled THEN 0 ELSE 1)
C14_Unset == [][C14_UnsetStep]_vars

\* C14 witness: unset has run on both keys at once, one of them the key of a
\* handle that error() had closed (so that key had an error and a loading
\* entry), and a single doNotify is queued.
C14_Witness ==
  /\ last.op = "unset"
  /\ last.keys = Keys
  /\ \E h \in 1..Len(handles) : handles[h].closed /\ handles[h].key \in last.keys
  /\ NumFlush(mq) = 1

\* ---------------------------------------------------------------------------
\* C15  After setState(merge), and after createStore(initial), every key of the
\* argument is known, has no error, has loading and live false, has no teardown
\* registered (a registered one was invoked and removed) and has the given
\* value; the call requested one notification.
C15_Settled(s, m) ==
  \A k \in DOMAIN m :
    /\ known(s, k)
    /\ error(s, k) = Undef
    /\ Entry(s.loadings, k) = {FALSE}
    /\ Entry(s.lives, k) = {FALSE}
    /\ ~Has(s.disconnects, k)
    /\ Entry(s.state, k) = {m[k]}
C15_SetStateStep ==
  last'.op = "setState" =>
    /\ C15_Settled(store', last'.m)
    /\ \A k \in DOMAIN last'.m :
         Has(store.disconnects, k) =>
           torn'[store.disconnects[k]] = torn[store.disconnects[k]] + 1
    /\ store'.notifyScheduled
    /\ Len(mq') = Len(mq) + (IF store.notifyScheduled THEN 0 ELSE 1)
C15_SetState ==
  /\ last.op = "createStore" => (C15_Settled(store, last.m) /\ mq = <<FlushTask>>)
  /\ [][C15_SetStateStep]_vars

\* C15 witness: setState has just written the key of a connected handle, whose
\* teardown it invoked.
C15_Witness ==
  /\ last.op = "setState"
  /\ \E h \in connected : handles[h].key \in DOMAIN last.m /\ torn[h] = 1

\* ---------------------------------------------------------------------------
\* C16  set(k, v) with a literal v behaves as setState({k: v}): when the call
\* returns the store is the one setState({k: v}) would have produced from the
\* same store, and no subscription invoked while that write is the latest one
\* to k is shown k with loading true or without its value.
C16_LiteralSetIsSetStateStep ==
  /\ (last'.op = "set" /\ ~calls'[last'.c].deferred /\ calls'[last'.c].res \in Vals) =>
       LET k == calls'[last'.c].key
           v == calls'[last'.c].res
       IN store' = setState(World, [x \in {k} |-> v]).s
  /\ last'.op = "deliver" =>
       \A c \in 1..Len(calls) :
         (~calls[c].deferred /\ calls[c].res \in Vals /\ c \notin dirtyCalls) =>
            /\ ~Truthy(arg'.context.loading, calls[c].key)
            /\ Entry(arg'.state, calls[c].key) = {calls[c].res}
C16_LiteralSetIsSetState == [][C16_LiteralSetIsSetStateStep]_vars

\* ---------------------------------------------------------------------------
\* C17  Pending state: in every reachable state, a deferred set(k, d) whose d
\* has not settled and which no later set, setState, unset or observer attach
\* on k has superseded (it is then the most recently issued write to k) has
\* loading(k) true and get(k) absent, whatever earlier deferred writes to k
\* settled and whatever handles created earlier for k did in between.
C17_PendingState ==
  \A c \in 1..Len(calls) :
    (calls[c].deferred /\ calls[c].st = "pending" /\ c \notin supCalls) =>
       /\ loading(store, calls[c].key)
       /\ get(store, calls[c].key) = Undef

\* ---------------------------------------------------------------------------
\* C18  In every reachable state live[k] = true implies that a teardown is
\* registered in disconnects[k]; accordingly live[k] is not true right after
\* error or complete on an open handle of k, after set or setState on k, and
\* after unset(k).
C18_LiveHasTeardown ==
  /\ \A k \in Keys : Truthy(store.lives, k) => Has(store.disconnects, k)
  /\ (last.op \in {"error", "complete"} /\ ~last.closed) =>
        ~Truthy(store.lives, handles[last.h].key)
  /\ last.op \in {"set", "setState", "unset"} =>
        \A k \in last.keys : ~Truthy(store.lives, k)

\* ---------------------------------------------------------------------------
\* C19  Right after every set(k, ...), every setState whose argument contains k
\* and every observer(k) attach, k is in known; and a key leaves known only in
\* a step of unset that lists it.
C19_KnownStep ==
  /\ last'.op \in {"set", "setState", "observer"} =>
       \A k \in last'.keys : known(store', k)
  /\ \A k \in Keys :
       (known(store, k) /\ ~known(store', k)) => (last'.op = "unset" /\ k \in last'.keys)
C19_Known == [][C19_KnownStep]_vars

\* ---------------------------------------------------------------------------
\* C20  Right after a successful write to k (setState containing k, the write
\* of a literal set or of a deferred set that resolved, next on an open handle
\* whose transform did not throw) error(k) is absent.
C20_WriteClearsErrorStep ==
  /\ last'.op = "setState" =>
       \A k \in last'.keys : error(store', k) = Undef
  /\ (last'.op = "resume" /\ calls[last'.c].ok) =>
       \A k \in last'.keys : error(store', k) = Undef
  /\ (last'.op = "next" /\ ~last'.closed /\ ~last'.tt) =>
       error(store', handles[last'.h].key) = Undef
C20_WriteClearsError == [][C20_WriteClearsErrorStep]_vars

\* ---------------------------------------------------------------------------
\* C21  complete() on an open handle of k closes the handle, sets loading[k]
\* and live[k] to false, requests a notification and leaves the state and the
\* errors entry of k as they were; error(e) on an open handle of k sets
\* state[k] to undefined and records e as the error of k.
C21_CompleteStep ==
  /\ (last'.op = "complete" /\ ~last'.closed) =>
       LET k == handles[last'.h].key
       IN /\ handles'[last'.h].closed
          /\ Entry(store'.loadings, k) = {FALSE}
          /\ Entry(store'.lives, k) = {FALSE}
          /\ Requested(store', mq')
          /\ Entry(store'.state, k) = Entry(store.state, k)
          /\ Entry(store'.errors, k) = Entry(store.errors, k)
  /\ (last'.op = "error" /\ ~last'.closed) =>
       LET k == handles[last'.h].key
       IN /\ Entry(store'.state, k) = {Undef}
          /\ error(store', k) \in Errs
C21_Complete == [][C21_CompleteStep]_vars

\* C21 witness: complete() has just closed an open handle whose key holds a
\* value written after the store was created, which is still there.
C21_Witness ==
  /\ last.op = "complete"
  /\ ~last.closed
  /\ handles[last.h].closed
  /\ get(store, handles[last.h].key) = "v2"
  /\ ~loading(store, handles[last.h].key)

\* ---------------------------------------------------------------------------
\* C22  Scheduler invariant: at most one doNotify callback is queued at any
\* time, and whenever no library code is running notifyScheduled is true
\* exactly when a doNotify callback is queued.
C22_SchedulerInvariant ==
  /\ NumFlush(mq) <= 1
  /\ mode = "idle" => (store.notifyScheduled <=> NumFlush(mq) = 1)

\* ---------------------------------------------------------------------------
\* C23  Per-key frame: a step of set, setState, unset, or of next, error or
\* complete of a handle, and the resumption of a set() call after its deferred
\* settled, leaves the value, known, loading, live and error of every key it
\* does not act on as they were, and leaves the subscriptions as they were.
C23_PerKeyFrameStep ==
  last'.op \in {"set", "setState", "unset", "next", "error", "complete", "resume"} =>
    /\ \A j \in Keys \ last'.keys : KeyView(store', j) = KeyView(store, j)
    /\ store'.subscriptions = store.subscriptions
C23_PerKeyFrame == [][C23_PerKeyFrameStep]_vars
====
